---- MODULE Spec2Model ----
(***************************************************************************)
(* A model of ceph_deploy/install.py: the install, uninstall, purge and    *)
(* purge_data sub-commands as state machines over a list of remote hosts.  *)
(* Remote calls (hosts.get, the distro adapter, process.run/check) are the *)
(* environment: each call's outcome is chosen nondeterministically.        *)
(***************************************************************************)
EXTENDS Naturals, Sequences, FiniteSets, TLC

VARIABLES
    argv,            \* the version flag of the command line parsed last
    parser,          \* self.dest of each StoreVersion action of the parser
    func,            \* args.func: the sub-command that runs
    args,            \* the argparse namespace
    environ,         \* os.environ (the two variables install reads)
    cd_conf,         \* args.cd_conf: the config document, or NoConf
    pc,              \* position in the running function
    i,               \* index of the current host in args.host
    frame,           \* the locals of install / custom_repo
    conns,           \* hosts whose session (distro.conn) is open
    calls,           \* trace of the remote and adapter calls made so far
    log,             \* trace of the LOG / rlogger warnings and errors
    installed_hosts, \* purge_data's local list
    fs,              \* per host: do /var/lib/ceph and /etc/ceph exist
    err              \* the exception that ended the run, or NoError

vars == <<argv, parser, func, args, environ, cd_conf, pc, i, frame, conns, calls, log,
          installed_hosts, fs, err>>

-----------------------------------------------------------------------------
(* Bounds and value domains *)

MaxHosts == 2

\* Python's None, and the empty list argparse stores for nargs=0
NONE == "None"
EMPTYLIST == "[]"

\* Python truthiness of the values the model uses
Truthy(v) == v \notin {NONE, "", EMPTYLIST, "False"}

\* a or b
PyOr(a, b) == IF Truthy(a) THEN a ELSE b

Hosts == 1..MaxHosts

HostList(n) == [k \in 1..n |-> k]

-----------------------------------------------------------------------------
(* The config document (ceph_deploy.conf.cephdeploy.Conf), as install.py   *)
(* reads it: get_repos, has_repos, get_default_repo, items, get_list.      *)

RECURSIVE JoinNames(_)
JoinNames(s) ==
    IF Len(s) = 0 THEN ""
    ELSE IF Len(s) = 1 THEN s[1]
    ELSE s[1] \o "," \o JoinNames(Tail(s))

\* One repo section: its options, and the parsed extra-repos list
Section(name, keys, isDefault, extra) ==
    [items |-> [k \in keys \cup (IF isDefault THEN {"default"} ELSE {})
                        \cup (IF Len(extra) > 0 THEN {"extra-repos"} ELSE {})
                 |-> IF k = "default" THEN "True"
                     ELSE IF k = "extra-repos" THEN JoinNames(extra)
                     ELSE name \o "." \o k],
     extra |-> extra]

get_repos(conf) == conf.repos

has_repos(conf) == Len(conf.repos) > 0

RECURSIVE FirstDefault(_, _)
FirstDefault(conf, k) ==
    IF k > Len(conf.repos) THEN "False"
    ELSE IF "default" \in DOMAIN conf.sec[conf.repos[k]].items THEN conf.repos[k]
    ELSE FirstDefault(conf, k + 1)

get_default_repo(conf) == FirstDefault(conf, 1)

has_section(conf, name) == \E k \in 1..Len(conf.repos) : conf.repos[k] = name

items(conf, name) == conf.sec[name].items

get_list(conf, name) == conf.sec[name].extra

InList(v, s) == \E k \in 1..Len(s) : s[k] = v

\* dict.pop(key) on a copy of the options: the dict without the key
DictPop(d, key) == [k \in (DOMAIN d) \ {key} |-> d[k]]

\* d[key] = value on a copy of the options
DictSet(d, key, value) ==
    [k \in (DOMAIN d) \cup {key} |-> IF k = key THEN value ELSE d[k]]

-----------------------------------------------------------------------------
(* The input domains *)

ReleaseNames == {"emperor", "firefly"}
RequiredKeys == {"baseurl", "gpgkey"}
FullKeys == {"baseurl", "gpgkey", "enabled"}
KeySets == {FullKeys, FullKeys \ {"baseurl"}, FullKeys \ {"gpgkey"},
            FullKeys \ RequiredKeys}

Seqs1(S) == {<<>>} \cup {<<a>> : a \in S}
\* Config documents: any subset of the release-named sections, at most one
\* of them marked default, at most one of them lacking required keys, each
\* listing the same extra-repos; the "extras" section is present when listed
\* and may itself lack a required key.
MkConf(prim, dflt, broken, extra, xkeys) ==
    LET order == SelectSeq(<<"emperor", "firefly">>, LAMBDA s : s \in prim) \o extra
    IN  [present |-> TRUE,
         repos |-> order,
         sec   |-> [s \in {order[k] : k \in 1..Len(order)} |->
                      IF s = "extras"
                      THEN Section(s, xkeys, FALSE, <<>>)
                      ELSE Section(s,
                                   IF s = broken[1] THEN broken[2] ELSE FullKeys,
                                   s = dflt, extra)]]

\* args.cd_conf is None
NoConf == [present |-> FALSE, repos |-> <<>>, sec |-> <<>>]

ConfDocs ==
    {NoConf} \cup
    { MkConf(c[1], c[2], c[3], c[4], c[5]) :
        c \in { d \in (SUBSET ReleaseNames) \X (ReleaseNames \cup {NONE})
                       \X ((ReleaseNames \cup {NONE}) \X KeySets)
                       \X Seqs1({"extras"}) \X {FullKeys, FullKeys \ {"gpgkey"}} :
                 /\ d[2] \in d[1] \cup {NONE}
                 /\ d[3][1] \in d[1] \cup {NONE}
                 /\ (d[3][1] = NONE) = (d[3][2] = FullKeys)
                 /\ (Len(d[4]) = 0) => d[5] = FullKeys } }

\* The version flags of one command line (mutually exclusive): none, or one
\* flag with its value; <<flag, value>>
VersionFlags ==
    {<<NONE, NONE>>}
    \cup {<<"stable", v>> : v \in {"firefly", NONE}}
    \cup {<<"release", v>> : v \in {"firefly", NONE}}
    \cup {<<"testing", EMPTYLIST>>}
    \cup {<<"dev", v>> : v \in {"master", "firefly", "emperor"}}

RepoEnvUrls == {NONE, "http://env/repo"}
RepoFlagUrls == {NONE, "", "http://cli/repo"}
GpgEnvUrls == {NONE}
GpgFlagUrls == {NONE, "http://cli/gpg"}

gpg_fallback == "https://ceph.com/git/?p=ceph.git;a=blob_plain;f=keys/release.asc"

-----------------------------------------------------------------------------
(* argparse: the defaults of make(), and StoreVersion.__call__             *)

Defaults ==
    [stable |-> NONE, release |-> "emperor", testing |-> NONE,
     dev |-> "master", version_kind |-> "stable", adjust_repos |-> TRUE,
     repo_url |-> NONE, gpg_url |-> NONE, host |-> <<>>]

\* Faulty variant of StoreVersion: version_kind is the dest as it stands,
\* 'release' is not turned into 'stable'
StoreVersion_KeepDest(namespace, dest, values) ==
    [[namespace EXCEPT ![dest] = values] EXCEPT !.version_kind = dest]

\* lines 288-292: the namespace after __call__ of an action whose self.dest
\* is dest
StoreVersion(namespace, dest, values) ==
    LET stored == [namespace EXCEPT ![dest] = values]
        kind   == IF dest = "release" THEN "stable" ELSE dest
    IN  [stored EXCEPT !.version_kind = kind]

\* lines 290-292: self.dest of the action after __call__
StoreVersionDest(dest) == IF dest = "release" THEN "stable" ELSE dest

\* lines 301-337: the four version options, each with its own action
\* instance, whose self.dest is the option's name
FreshParser ==
    [stable |-> "stable", release |-> "release", testing |-> "testing",
     dev |-> "dev"]

\* parse_args on a parser whose actions are in state p: the namespace ...
ParseWith(p, flag, n, repo, gpg) ==
    LET base == [Defaults EXCEPT !.host = HostList(n),
                                 !.repo_url = repo, !.gpg_url = gpg]
    IN  IF flag[1] = NONE THEN base
        ELSE StoreVersion(base, p[flag[1]], flag[2])

\* ... and the actions afterwards
ParserAfter(p, flag) ==
    IF flag[1] = NONE THEN p
    ELSE [p EXCEPT ![flag[1]] = StoreVersionDest(p[flag[1]])]

\* parse_args of one command line on a newly made parser
ParseArgs(flag, n, repo, gpg) == ParseWith(FreshParser, flag, n, repo, gpg)

NoError == [type |-> NONE, key |-> NONE, section |-> NONE]
RemoteError(what) == [type |-> "RemoteError", key |-> what, section |-> NONE]

NoFrame ==
    [version |-> NONE, repo_url |-> NONE, gpg_url |-> NONE,
     default_repo |-> NONE, extra_repos |-> <<>>, x |-> 0]

Init ==
    /\ func \in {"install", "uninstall", "purge", "purge_data"}
    /\ \E n \in 1..MaxHosts :
         IF func = "install"
         THEN /\ \E flag \in VersionFlags, repo \in RepoFlagUrls, gpg \in GpgFlagUrls :
                   /\ args = ParseArgs(flag, n, repo, gpg)
                   /\ argv = flag
                   /\ parser = ParserAfter(FreshParser, flag)
              /\ \E renv \in RepoEnvUrls, genv \in GpgEnvUrls :
                   environ = [CEPH_DEPLOY_REPO_URL |-> renv,
                              CEPH_DEPLOY_GPG_URL |-> genv]
              /\ cd_conf \in ConfDocs
         ELSE /\ args = ParseArgs(<<NONE, NONE>>, n, NONE, NONE)
              /\ argv = <<NONE, NONE>>
              /\ parser = FreshParser
              /\ environ = [CEPH_DEPLOY_REPO_URL |-> NONE,
                            CEPH_DEPLOY_GPG_URL |-> NONE]
              /\ cd_conf = NoConf
    /\ pc = func
    /\ i = 1
    /\ frame = NoFrame
    /\ conns = {}
    /\ calls = <<>>
    /\ log = <<>>
    /\ installed_hosts = <<>>
    /\ fs = [h \in Hosts |-> [data |-> TRUE, conf |-> TRUE]]
    /\ err = NoError

hostname == args.host[i]

Call(ev, h, result) == [ev |-> ev, host |-> h, result |-> result]

\* Leave the loop body: the next host, or the function returns
NextHost(start) ==
    /\ i' = i + 1
    /\ pc' = IF i + 1 > Len(args.host) THEN "returned" ELSE start

\* An exception propagates out of the function: nothing else runs
Raise(e) ==
    /\ err' = e
    /\ pc' = "raised"

-----------------------------------------------------------------------------
(* install(args) *)

\* lines 13-33: the --stable / --release dance
InstallBegin ==
    /\ pc = "install"
    /\ LET deprecated == args.stable # NONE
           release    == IF deprecated THEN args.stable ELSE args.release
           version    == IF args.version_kind = "stable" THEN release
                         ELSE args[args.version_kind]
       IN  /\ args' = [args EXCEPT !.release = release]
           /\ log' = IF deprecated
                     THEN Append(log, <<"warning", "the --stable flag is deprecated">>)
                     ELSE log
           /\ frame' = [frame EXCEPT !.version = version]
    /\ pc' = "install_get"
    /\ UNCHANGED <<argv, parser, func, environ, cd_conf, i, conns, calls, installed_hosts, fs, err>>

\* hosts.get(hostname): open the session, then detect the distro.
\* "connect": no session was opened; "unsupported": detection failed on
\* the open session.
GetHost(here, next) ==
    /\ pc = here
    /\ \E outcome \in {"ok", "connect", "unsupported"} :
         /\ calls' = Append(calls, Call("hosts.get", hostname, outcome))
         /\ conns' = IF outcome = "connect" THEN conns ELSE conns \cup {hostname}
         /\ IF outcome = "ok"
            THEN pc' = next /\ err' = err
            ELSE Raise(RemoteError("hosts.get"))

\* distro.conn.exit()
ExitConn(here, start) ==
    /\ pc = here
    /\ conns' = conns \ {hostname}
    /\ calls' = Append(calls, Call("conn.exit", hostname, "ok"))
    /\ NextHost(start)

\* lines 35-45
InstallGet ==
    /\ GetHost("install_get", "install_dispatch")
    /\ UNCHANGED <<argv, parser, func, args, environ, cd_conf, i, frame, log, installed_hosts, fs>>

\* lines 96-110
should_use_custom_repo(a, conf, repo_url) ==
    IF Truthy(repo_url) THEN FALSE
    ELSE IF conf.present /\ has_repos(conf)
         THEN LET has_valid_release == InList(a.release, get_repos(conf))
                  has_default_repo  == get_default_repo(conf)
              IN  has_valid_release \/ Truthy(has_default_repo)
         ELSE FALSE

\* lines 50-57: the repo and gpg urls of this iteration
LocalRepoUrl == PyOr(environ.CEPH_DEPLOY_REPO_URL, args.repo_url)

\* Faulty variant of LocalGpgUrl: the fallback replaces any falsy gpg url
LocalGpgUrl_FalsyFallback ==
    LET gpg_url == PyOr(environ.CEPH_DEPLOY_GPG_URL, args.gpg_url)
    IN  IF ~Truthy(gpg_url) /\ Truthy(LocalRepoUrl) THEN gpg_fallback ELSE gpg_url

LocalGpgUrl ==
    LET gpg_url == PyOr(environ.CEPH_DEPLOY_GPG_URL, args.gpg_url)
    IN  IF gpg_url = NONE /\ Truthy(LocalRepoUrl) THEN gpg_fallback ELSE gpg_url

FallbackWarnings ==
    IF PyOr(environ.CEPH_DEPLOY_GPG_URL, args.gpg_url) = NONE /\ Truthy(LocalRepoUrl)
    THEN <<<<"warning", "--gpg-url was not used, will fallback">>,
           <<"warning", "using GPG fallback">>>>
    ELSE <<>>

\* lines 62-68
OverrideWarnings ==
    IF cd_conf.present
    THEN (IF Truthy(get_default_repo(cd_conf))
          THEN <<<<"warning", "a default repo was found but it was overridden on the CLI">>>>
          ELSE <<>>)
         \o
         (IF InList(args.release, get_repos(cd_conf))
          THEN <<<<"warning", "a custom repo was found but it was overridden on the CLI">>>>
          ELSE <<>>)
    ELSE <<>>

\* Faulty variant of InstallMirror: `if` in place of `elif` at line 79, the
\* plain install runs after mirror_install
InstallMirror_ThenPlain ==
    /\ pc = "install_dispatch"
    /\ Truthy(LocalRepoUrl)
    /\ frame' = [frame EXCEPT !.repo_url = LocalRepoUrl, !.gpg_url = LocalGpgUrl]
    /\ log' = log \o FallbackWarnings \o OverrideWarnings
    /\ calls' = calls \o
           <<[ev |-> "mirror_install", host |-> hostname, result |-> "ok",
              repo_url |-> LocalRepoUrl, gpg_url |-> LocalGpgUrl,
              adjust_repos |-> args.adjust_repos],
             [ev |-> "install", host |-> hostname, result |-> "ok",
              version_kind |-> args.version_kind, version |-> frame.version,
              adjust_repos |-> args.adjust_repos]>>
    /\ pc' = "install_version" /\ err' = err
    /\ UNCHANGED <<argv, parser, func, args, environ, cd_conf, i, conns, installed_hosts, fs>>

\* lines 47-76: the custom repo url branch
InstallMirror ==
    /\ pc = "install_dispatch"
    /\ Truthy(LocalRepoUrl)
    /\ frame' = [frame EXCEPT !.repo_url = LocalRepoUrl, !.gpg_url = LocalGpgUrl]
    /\ log' = log \o FallbackWarnings \o OverrideWarnings
    /\ \E ok \in BOOLEAN :
         /\ calls' = Append(calls,
                [ev |-> "mirror_install", host |-> hostname,
                 result |-> IF ok THEN "ok" ELSE "error",
                 repo_url |-> LocalRepoUrl, gpg_url |-> LocalGpgUrl,
                 adjust_repos |-> args.adjust_repos])
         /\ IF ok THEN pc' = "install_version" /\ err' = err
            ELSE Raise(RemoteError("mirror_install"))
    /\ UNCHANGED <<argv, parser, func, args, environ, cd_conf, i, conns, installed_hosts, fs>>

\* Faulty variant of InstallCustom: the config document is consulted whether
\* or not a repo url was given
InstallCustom_ConfigFirst ==
    /\ pc = "install_dispatch"
    /\ should_use_custom_repo(args, cd_conf, NONE)
    /\ frame' = [frame EXCEPT !.repo_url = LocalRepoUrl, !.gpg_url = LocalGpgUrl]
    /\ log' = log \o FallbackWarnings
               \o <<<<"info", "detected valid custom repositories from config file">>>>
    /\ pc' = "custom_repo"
    /\ UNCHANGED <<argv, parser, func, args, environ, cd_conf, i, conns, calls, installed_hosts, fs, err>>

\* lines 47-57, 79-81: enter custom_repo
InstallCustom ==
    /\ pc = "install_dispatch"
    /\ ~Truthy(LocalRepoUrl)
    /\ should_use_custom_repo(args, cd_conf, LocalRepoUrl)
    /\ frame' = [frame EXCEPT !.repo_url = LocalRepoUrl, !.gpg_url = LocalGpgUrl]
    /\ log' = log \o FallbackWarnings
               \o <<<<"info", "detected valid custom repositories from config file">>>>
    /\ pc' = "custom_repo"
    /\ UNCHANGED <<argv, parser, func, args, environ, cd_conf, i, conns, calls, installed_hosts, fs, err>>

\* lines 47-57, 83-89: a normal installation
InstallPlain ==
    /\ pc = "install_dispatch"
    /\ ~Truthy(LocalRepoUrl)
    /\ ~should_use_custom_repo(args, cd_conf, LocalRepoUrl)
    /\ frame' = [frame EXCEPT !.repo_url = LocalRepoUrl, !.gpg_url = LocalGpgUrl]
    /\ log' = log \o FallbackWarnings
    /\ \E ok \in BOOLEAN :
         /\ calls' = Append(calls,
                [ev |-> "install", host |-> hostname,
                 result |-> IF ok THEN "ok" ELSE "error",
                 version_kind |-> args.version_kind, version |-> frame.version,
                 adjust_repos |-> args.adjust_repos])
         /\ IF ok THEN pc' = "install_version" /\ err' = err
            ELSE Raise(RemoteError("install"))
    /\ UNCHANGED <<argv, parser, func, args, environ, cd_conf, i, conns, installed_hosts, fs>>

\* Faulty variant of InstallCephVersion: the error is swallowed and the loop
\* goes on
InstallCephVersion_Swallow ==
    /\ pc = "install_version"
    /\ \E ok \in BOOLEAN :
         calls' = Append(calls, Call("ceph_version", hostname,
                                     IF ok THEN "ok" ELSE "error"))
    /\ pc' = "install_exit"
    /\ UNCHANGED <<argv, parser, func, args, environ, cd_conf, i, frame, conns, log, installed_hosts, fs, err>>

\* line 92
InstallCephVersion ==
    /\ pc = "install_version"
    /\ \E ok \in BOOLEAN :
         /\ calls' = Append(calls, Call("ceph_version", hostname,
                                        IF ok THEN "ok" ELSE "error"))
         /\ IF ok THEN pc' = "install_exit" /\ err' = err
            ELSE Raise(RemoteError("ceph_version"))
    /\ UNCHANGED <<argv, parser, func, args, environ, cd_conf, i, frame, conns, log, installed_hosts, fs>>

\* line 93
InstallExit ==
    /\ ExitConn("install_exit", "install_get")
    /\ UNCHANGED <<argv, parser, func, args, environ, cd_conf, frame, log, installed_hosts, fs, err>>

-----------------------------------------------------------------------------
(* custom_repo(distro, args, cd_conf, rlogger) *)

\* Faulty variant of ConfigError: the two format arguments are swapped
ConfigError_Swapped(key, section) ==
    [type |-> "RuntimeError", key |-> section, section |-> key]

\* line 148 / line 162: RuntimeError('missing required key: %s in config
\* section: %s' % (err, section))
ConfigError(key, section) ==
    [type |-> "RuntimeError", key |-> key, section |-> section]

\* Faulty variant of SelectedRepo: the default repo outranks the release match
SelectedRepo_DefaultFirst(a, conf) ==
    IF Truthy(get_default_repo(conf)) THEN get_default_repo(conf)
    ELSE IF InList(a.release, get_repos(conf)) THEN a.release
    ELSE "False"

\* lines 122-127: the section custom_repo selects
SelectedRepo(a, conf) ==
    IF InList(a.release, get_repos(conf)) THEN a.release
    ELSE get_default_repo(conf)

\* distro.repo_install(distro, name, options.pop('baseurl'),
\* options.pop('gpgkey'), **options)
RepoInstallCall(h, name, options, ok) ==
    [ev |-> "repo_install", host |-> h,
     result |-> IF ok THEN "ok" ELSE "error",
     name |-> name, baseurl |-> options["baseurl"], gpgkey |-> options["gpgkey"],
     options |-> DictPop(DictPop(options, "baseurl"), "gpgkey")]

\* The first key options.pop() does not find, or NONE
MissingKey(options) ==
    IF "baseurl" \notin DOMAIN options THEN "baseurl"
    ELSE IF "gpgkey" \notin DOMAIN options THEN "gpgkey"
    ELSE NONE

\* Faulty variant of CustomRepoPrimary: options is the section of the
\* document itself, not a dict() copy of it
CustomRepoPrimary_InPlace ==
    /\ pc = "custom_repo"
    /\ LET default_repo == SelectedRepo(args, cd_conf)
           options == DictSet(items(cd_conf, default_repo), "install_ceph", "True")
           extra_repos == get_list(cd_conf, default_repo)
       IN  /\ frame' = [frame EXCEPT !.default_repo = default_repo,
                                     !.extra_repos = extra_repos, !.x = 1]
           /\ log' = log
           /\ IF MissingKey(options) # NONE
              THEN /\ Raise(ConfigError(MissingKey(options), default_repo))
                   /\ calls' = calls
                   /\ cd_conf' = [cd_conf EXCEPT !.sec[default_repo].items =
                                     DictPop(options, "baseurl")]
              ELSE \E ok \in BOOLEAN :
                     /\ calls' = Append(calls,
                            RepoInstallCall(hostname, default_repo, options, ok))
                     /\ cd_conf' = [cd_conf EXCEPT !.sec[default_repo].items =
                                       DictPop(DictPop(options, "baseurl"), "gpgkey")]
                     /\ IF ~ok THEN Raise(RemoteError("repo_install"))
                        ELSE /\ err' = err
                             /\ pc' = IF Len(extra_repos) > 0
                                      THEN "custom_repo_extra"
                                      ELSE "install_version"
    /\ UNCHANGED <<argv, parser, func, args, environ, i, conns, installed_hosts, fs>>

\* lines 122-148: select the section and install it
CustomRepoPrimary ==
    /\ pc = "custom_repo"
    /\ LET default_repo == SelectedRepo(args, cd_conf)
       IN  IF ~Truthy(default_repo)
           THEN /\ log' = Append(log, <<"warning",
                      "a ceph-deploy config was found with repos but could not default to one">>)
                /\ frame' = [frame EXCEPT !.default_repo = default_repo]
                /\ pc' = "install_version"
                /\ UNCHANGED <<calls, err>>
           ELSE LET options == DictSet(items(cd_conf, default_repo), "install_ceph", "True")
                    extra_repos == get_list(cd_conf, default_repo)
                IN  /\ frame' = [frame EXCEPT !.default_repo = default_repo,
                                              !.extra_repos = extra_repos, !.x = 1]
                    /\ log' = log
                    /\ IF MissingKey(options) # NONE
                       THEN /\ Raise(ConfigError(MissingKey(options), default_repo))
                            /\ calls' = calls
                       ELSE \E ok \in BOOLEAN :
                              /\ calls' = Append(calls,
                                     RepoInstallCall(hostname, default_repo, options, ok))
                              /\ IF ~ok THEN Raise(RemoteError("repo_install"))
                                 ELSE /\ err' = err
                                      /\ pc' = IF Len(extra_repos) > 0
                                               THEN "custom_repo_extra"
                                               ELSE "install_version"
    /\ UNCHANGED <<argv, parser, func, args, environ, cd_conf, i, conns, installed_hosts, fs>>

\* Faulty variant of CustomRepoExtra: the extra repos get the install marker
\* too
CustomRepoExtra_WithMarker ==
    /\ pc = "custom_repo_extra"
    /\ LET xrepo == frame.extra_repos[frame.x]
           options == DictSet(items(cd_conf, xrepo), "install_ceph", "True")
       IN  IF MissingKey(options) # NONE
           THEN /\ Raise(ConfigError(MissingKey(options), xrepo))
                /\ UNCHANGED <<calls, frame>>
           ELSE \E ok \in BOOLEAN :
                  /\ calls' = Append(calls,
                         RepoInstallCall(hostname, xrepo, options, ok))
                  /\ IF ~ok
                     THEN Raise(RemoteError("repo_install")) /\ frame' = frame
                     ELSE /\ err' = err
                          /\ frame' = [frame EXCEPT !.x = frame.x + 1]
                          /\ pc' = IF frame.x + 1 > Len(frame.extra_repos)
                                   THEN "install_version"
                                   ELSE "custom_repo_extra"
    /\ UNCHANGED <<argv, parser, func, args, environ, cd_conf, i, conns, log, installed_hosts, fs>>

\* lines 150-162: one iteration over extra_repos
CustomRepoExtra ==
    /\ pc = "custom_repo_extra"
    /\ LET xrepo == frame.extra_repos[frame.x]
       IN  IF ~has_section(cd_conf, xrepo)
           THEN /\ Raise([type |-> "NoSectionError", key |-> NONE, section |-> xrepo])
                /\ UNCHANGED <<calls, frame>>
           ELSE LET options == items(cd_conf, xrepo)
                IN  IF MissingKey(options) # NONE
                    THEN /\ Raise(ConfigError(MissingKey(options), xrepo))
                         /\ UNCHANGED <<calls, frame>>
                    ELSE \E ok \in BOOLEAN :
                           /\ calls' = Append(calls,
                                  RepoInstallCall(hostname, xrepo, options, ok))
                           /\ IF ~ok
                              THEN Raise(RemoteError("repo_install")) /\ frame' = frame
                              ELSE /\ err' = err
                                   /\ frame' = [frame EXCEPT !.x = frame.x + 1]
                                   /\ pc' = IF frame.x + 1 > Len(frame.extra_repos)
                                            THEN "install_version"
                                            ELSE "custom_repo_extra"
    /\ UNCHANGED <<argv, parser, func, args, environ, cd_conf, i, conns, log, installed_hosts, fs>>

-----------------------------------------------------------------------------
(* uninstall(args) and purge(args) *)

\* distro.uninstall(distro.conn, purge=...)
UninstallCall(here, next, purgeFlag) ==
    /\ pc = here
    /\ \E ok \in BOOLEAN :
         /\ calls' = Append(calls,
                [ev |-> "uninstall", host |-> hostname,
                 result |-> IF ok THEN "ok" ELSE "error", purge |-> purgeFlag])
         /\ IF ok THEN pc' = next /\ err' = err
            ELSE Raise(RemoteError("uninstall"))

\* lines 172-178
UninstallGet ==
    /\ GetHost("uninstall", "uninstall_call")
    /\ UNCHANGED <<argv, parser, func, args, environ, cd_conf, i, frame, log, installed_hosts, fs>>

\* line 179
UninstallRun ==
    /\ UninstallCall("uninstall_call", "uninstall_exit", FALSE)
    /\ UNCHANGED <<argv, parser, func, args, environ, cd_conf, i, frame, conns, log, installed_hosts, fs>>

\* line 180
UninstallExit ==
    /\ ExitConn("uninstall_exit", "uninstall")
    /\ UNCHANGED <<argv, parser, func, args, environ, cd_conf, frame, log, installed_hosts, fs, err>>

\* lines 190-196
PurgeGet ==
    /\ GetHost("purge", "purge_call")
    /\ UNCHANGED <<argv, parser, func, args, environ, cd_conf, i, frame, log, installed_hosts, fs>>

\* Faulty variant of PurgeRun: the purge flag is left out
PurgeRun_NoPurge ==
    /\ UninstallCall("purge_call", "purge_exit", FALSE)
    /\ UNCHANGED <<argv, parser, func, args, environ, cd_conf, i, frame, conns, log, installed_hosts, fs>>

\* line 197
PurgeRun ==
    /\ UninstallCall("purge_call", "purge_exit", TRUE)
    /\ UNCHANGED <<argv, parser, func, args, environ, cd_conf, i, frame, conns, log, installed_hosts, fs>>

\* line 198
PurgeExit ==
    /\ ExitConn("purge_exit", "purge")
    /\ UNCHANGED <<argv, parser, func, args, environ, cd_conf, frame, log, installed_hosts, fs, err>>

-----------------------------------------------------------------------------
(* purge_data(args) *)

\* A remote command (process.run / process.check) on the current host
Command(name, ok) == Call(name, hostname, IF ok THEN "ok" ELSE "error")

\* line 210, first loop
PurgeDataProbeGet ==
    /\ GetHost("purge_data", "purge_data_which")
    /\ UNCHANGED <<argv, parser, func, args, environ, cd_conf, i, frame, log, installed_hosts, fs>>

\* lines 211-213: is the ceph executable on the host
PurgeDataWhich ==
    /\ pc = "purge_data_which"
    /\ \E ceph_is_installed \in BOOLEAN :
         /\ calls' = Append(calls, Call("which", hostname,
                                        IF ceph_is_installed THEN "present" ELSE "absent"))
         /\ installed_hosts' = IF ceph_is_installed
                               THEN Append(installed_hosts, hostname)
                               ELSE installed_hosts
    /\ pc' = "purge_data_probe_exit"
    /\ UNCHANGED <<argv, parser, func, args, environ, cd_conf, i, frame, conns, log, fs, err>>

\* Faulty variant of PurgeDataProbeExit: the session of the probe is not closed
PurgeDataProbeExit_NoClose ==
    /\ pc = "purge_data_probe_exit"
    /\ IF i + 1 > Len(args.host)
       THEN i' = 1 /\ pc' = "purge_data_check"
       ELSE i' = i + 1 /\ pc' = "purge_data"
    /\ UNCHANGED <<argv, parser, func, args, environ, cd_conf, frame, conns, calls, log,
                   installed_hosts, fs, err>>

\* Faulty variant of PurgeDataProbeExit: the first loop stops at the first
\* host that has the package
PurgeDataProbeExit_StopAtFirst ==
    /\ pc = "purge_data_probe_exit"
    /\ conns' = conns \ {hostname}
    /\ calls' = Append(calls, Call("conn.exit", hostname, "ok"))
    /\ IF i + 1 > Len(args.host) \/ Len(installed_hosts) > 0
       THEN i' = 1 /\ pc' = "purge_data_check"
       ELSE i' = i + 1 /\ pc' = "purge_data"
    /\ UNCHANGED <<argv, parser, func, args, environ, cd_conf, frame, log, installed_hosts, fs, err>>

\* line 214, and the end of the first loop
PurgeDataProbeExit ==
    /\ pc = "purge_data_probe_exit"
    /\ conns' = conns \ {hostname}
    /\ calls' = Append(calls, Call("conn.exit", hostname, "ok"))
    /\ IF i + 1 > Len(args.host)
       THEN i' = 1 /\ pc' = "purge_data_check"
       ELSE i' = i + 1 /\ pc' = "purge_data"
    /\ UNCHANGED <<argv, parser, func, args, environ, cd_conf, frame, log, installed_hosts, fs, err>>

\* Faulty variant of PurgeDataCheck: the gate is dropped, phase 2 always starts
PurgeDataCheck_NoGate ==
    /\ pc = "purge_data_check"
    /\ log' = log
    /\ pc' = "purge_data_get"
    /\ err' = err
    /\ UNCHANGED <<argv, parser, func, args, environ, cd_conf, i, frame, conns, calls, installed_hosts, fs>>

\* lines 216-218
PurgeDataCheck ==
    /\ pc = "purge_data_check"
    /\ IF Len(installed_hosts) > 0
       THEN /\ log' = Append(log, <<"error", "ceph is still installed on", installed_hosts>>)
            /\ Raise([type |-> "RuntimeError",
                      key |-> "refusing to purge data while ceph is still installed",
                      section |-> NONE])
       ELSE /\ log' = log
            /\ pc' = "purge_data_get"
            /\ err' = err
    /\ UNCHANGED <<argv, parser, func, args, environ, cd_conf, i, frame, conns, calls, installed_hosts, fs>>

\* lines 220-230, second loop
PurgeDataGet ==
    /\ GetHost("purge_data_get", "purge_data_rm")
    /\ UNCHANGED <<argv, parser, func, args, environ, cd_conf, i, frame, log, installed_hosts, fs>>

\* lines 232-239: process.check does not raise on a failed command
PurgeDataRm ==
    /\ pc = "purge_data_rm"
    /\ \E ok \in BOOLEAN :
         /\ calls' = Append(calls, Command("rm /var/lib/ceph", ok))
         /\ fs' = [fs EXCEPT ![hostname].data = IF ok THEN FALSE ELSE @]
    /\ pc' = "purge_data_unmount"
    /\ UNCHANGED <<argv, parser, func, args, environ, cd_conf, i, frame, conns, log, installed_hosts, err>>

\* Faulty variant of PurgeDataUnmount: the unmount runs whatever path_exists
\* answers
PurgeDataUnmount_Always ==
    /\ pc = "purge_data_unmount"
    /\ log' = Append(log, <<"warning", "OSDs may still be mounted, trying to unmount them">>)
    /\ \E ok \in BOOLEAN :
         /\ calls' = calls \o <<Call("path_exists", hostname,
                                     IF fs[hostname].data THEN "present" ELSE "absent"),
                                Command("umount", ok)>>
         /\ IF ok THEN pc' = "purge_data_rm2" /\ err' = err
            ELSE Raise(RemoteError("umount"))
    /\ UNCHANGED <<argv, parser, func, args, environ, cd_conf, i, frame, conns, installed_hosts, fs>>

\* lines 241-256: if the directory is still there, unmount what is beneath it
PurgeDataUnmount ==
    /\ pc = "purge_data_unmount"
    /\ IF fs[hostname].data
       THEN /\ log' = Append(log, <<"warning", "OSDs may still be mounted, trying to unmount them">>)
            /\ \E ok \in BOOLEAN :
                 /\ calls' = calls \o <<Call("path_exists", hostname, "present"),
                                        Command("umount", ok)>>
                 /\ IF ok THEN pc' = "purge_data_rm2" /\ err' = err
                    ELSE Raise(RemoteError("umount"))
       ELSE /\ calls' = Append(calls, Call("path_exists", hostname, "absent"))
            /\ log' = log
            /\ pc' = "purge_data_rmconf"
            /\ err' = err
    /\ UNCHANGED <<argv, parser, func, args, environ, cd_conf, i, frame, conns, installed_hosts, fs>>

\* Faulty variant of PurgeDataRm2: process.check instead of process.run, the
\* failure is not raised
PurgeDataRm2_Unchecked ==
    /\ pc = "purge_data_rm2"
    /\ \E ok \in BOOLEAN :
         /\ calls' = Append(calls, Command("rm /var/lib/ceph again", ok))
         /\ fs' = [fs EXCEPT ![hostname].data = IF ok THEN FALSE ELSE @]
    /\ pc' = "purge_data_rmconf"
    /\ UNCHANGED <<argv, parser, func, args, environ, cd_conf, i, frame, conns, log, installed_hosts, err>>

\* lines 258-265: process.run raises on a failed command
PurgeDataRm2 ==
    /\ pc = "purge_data_rm2"
    /\ \E ok \in BOOLEAN :
         /\ calls' = Append(calls, Command("rm /var/lib/ceph again", ok))
         /\ fs' = [fs EXCEPT ![hostname].data = IF ok THEN FALSE ELSE @]
         /\ IF ok THEN pc' = "purge_data_rmconf" /\ err' = err
            ELSE Raise(RemoteError("rm /var/lib/ceph"))
    /\ UNCHANGED <<argv, parser, func, args, environ, cd_conf, i, frame, conns, log, installed_hosts>>

\* Faulty variant of PurgeDataRmConf: a failed removal is not raised
PurgeDataRmConf_Swallow ==
    /\ pc = "purge_data_rmconf"
    /\ \E ok \in BOOLEAN :
         /\ calls' = Append(calls, Command("rm /etc/ceph", ok))
         /\ fs' = [fs EXCEPT ![hostname].conf = IF ok THEN FALSE ELSE @]
    /\ pc' = "purge_data_exit"
    /\ UNCHANGED <<argv, parser, func, args, environ, cd_conf, i, frame, conns, log, installed_hosts, err>>

\* lines 267-272
PurgeDataRmConf ==
    /\ pc = "purge_data_rmconf"
    /\ \E ok \in BOOLEAN :
         /\ calls' = Append(calls, Command("rm /etc/ceph", ok))
         /\ fs' = [fs EXCEPT ![hostname].conf = IF ok THEN FALSE ELSE @]
         /\ IF ok THEN pc' = "purge_data_exit" /\ err' = err
            ELSE Raise(RemoteError("rm /etc/ceph"))
    /\ UNCHANGED <<argv, parser, func, args, environ, cd_conf, i, frame, conns, log, installed_hosts>>

\* line 274
PurgeDataExit ==
    /\ ExitConn("purge_data_exit", "purge_data_get")
    /\ UNCHANGED <<argv, parser, func, args, environ, cd_conf, frame, log, installed_hosts, fs, err>>

-----------------------------------------------------------------------------

Next ==
    \/ InstallBegin
    \/ InstallGet
    \/ InstallMirror
    \/ InstallCustom
    \/ InstallPlain
    \/ CustomRepoPrimary
    \/ CustomRepoExtra
    \/ InstallCephVersion
    \/ InstallExit
    \/ UninstallGet
    \/ UninstallRun
    \/ UninstallExit
    \/ PurgeGet
    \/ PurgeRun
    \/ PurgeExit
    \/ PurgeDataProbeGet
    \/ PurgeDataWhich
    \/ PurgeDataProbeExit
    \/ PurgeDataCheck
    \/ PurgeDataGet
    \/ PurgeDataRm
    \/ PurgeDataUnmount
    \/ PurgeDataRm2
    \/ PurgeDataRmConf
    \/ PurgeDataExit

Spec == Init /\ [][Next]_vars

-----------------------------------------------------------------------------
(* One parser that handles several command lines of the install            *)
(* sub-command: its StoreVersion actions live as long as the parser does.  *)

InitParse ==
    /\ func = "install"
    /\ argv = <<NONE, NONE>>
    /\ parser = FreshParser
    /\ args = Defaults
    /\ environ = [CEPH_DEPLOY_REPO_URL |-> NONE, CEPH_DEPLOY_GPG_URL |-> NONE]
    /\ cd_conf = NoConf
    /\ pc = "parse"
    /\ i = 1
    /\ frame = NoFrame
    /\ conns = {}
    /\ calls = <<>>
    /\ log = <<>>
    /\ installed_hosts = <<>>
    /\ fs = [h \in Hosts |-> [data |-> TRUE, conf |-> TRUE]]
    /\ err = NoError

\* parser.parse_args(...): a new namespace from the defaults and the flag of
\* this command line; then args.func(args) runs, or the namespace is dropped
\* and the parser is handed another command line
ParseCommandLine ==
    /\ pc = "parse"
    /\ \E flag \in VersionFlags, n \in 1..MaxHosts :
         /\ args' = ParseWith(parser, flag, n, NONE, NONE)
         /\ parser' = ParserAfter(parser, flag)
         /\ argv' = flag
    /\ \E run \in BOOLEAN : pc' = IF run THEN "install" ELSE "parse"
    /\ UNCHANGED <<func, environ, cd_conf, i, frame, conns, calls, log,
                   installed_hosts, fs, err>>

NextParse ==
    \/ ParseCommandLine
    \/ InstallBegin
    \/ InstallGet
    \/ InstallPlain
    \/ InstallCephVersion
    \/ InstallExit

SpecParse == InitParse /\ [][NextParse]_vars

-----------------------------------------------------------------------------
(* install with every combination of unset, empty and non-empty repo and   *)
(* gpg urls in the environment and on the command line, without a config   *)
(* document.                                                               *)

UrlValues(url) == {NONE, "", url}

InitUrl ==
    /\ func = "install"
    /\ argv = <<NONE, NONE>>
    /\ parser = FreshParser
    /\ \E n \in 1..MaxHosts :
         \E repo \in UrlValues("http://cli/repo"), gpg \in UrlValues("http://cli/gpg") :
            args = ParseArgs(<<NONE, NONE>>, n, repo, gpg)
    /\ \E renv \in UrlValues("http://env/repo"), genv \in UrlValues("http://env/gpg") :
         environ = [CEPH_DEPLOY_REPO_URL |-> renv, CEPH_DEPLOY_GPG_URL |-> genv]
    /\ cd_conf = NoConf
    /\ pc = "install"
    /\ i = 1
    /\ frame = NoFrame
    /\ conns = {}
    /\ calls = <<>>
    /\ log = <<>>
    /\ installed_hosts = <<>>
    /\ fs = [h \in Hosts |-> [data |-> TRUE, conf |-> TRUE]]
    /\ err = NoError

NextUrl ==
    \/ InstallBegin
    \/ InstallGet
    \/ InstallMirror
    \/ InstallPlain
    \/ InstallCephVersion
    \/ InstallExit

SpecUrl == InitUrl /\ [][NextUrl]_vars

-----------------------------------------------------------------------------
(* install from a config document whose selected section lists extra     *)
(* repos: the section named after the default release, and up to         *)
(* MaxExtras further sections, listed in any order.                      *)

MaxExtras == 2

ExtraPool == <<"extras", "updates", "backports", "contrib">>

ExtraNames == {ExtraPool[k] : k \in 1..MaxExtras}

\* The extra-repos lists: the names in any order, none of them twice
ExtraLists ==
    {<<>>} \cup
    {s \in UNION {[1..n -> ExtraNames] : n \in 1..MaxExtras} :
        \A a, b \in DOMAIN s : a # b => s[a] # s[b]}

\* The document: the primary section with all its keys and the list, then
\* the extra sections in the order of ExtraPool, each with the keys of
\* keysOf
MkExtraConf(list, keysOf) ==
    [present |-> TRUE,
     repos |-> <<Defaults.release>> \o SubSeq(ExtraPool, 1, MaxExtras),
     sec   |-> [s \in {Defaults.release} \cup ExtraNames |->
                  IF s = Defaults.release
                  THEN Section(s, FullKeys, FALSE, list)
                  ELSE Section(s, keysOf[s], FALSE, <<>>)]]

ExtraDocs ==
    {MkExtraConf(list, keysOf) : list \in ExtraLists, keysOf \in [ExtraNames -> KeySets]}

InitExtras ==
    /\ func = "install"
    /\ argv = <<NONE, NONE>>
    /\ parser = FreshParser
    /\ \E n \in 1..MaxHosts : args = ParseArgs(<<NONE, NONE>>, n, NONE, NONE)
    /\ environ = [CEPH_DEPLOY_REPO_URL |-> NONE, CEPH_DEPLOY_GPG_URL |-> NONE]
    /\ cd_conf \in ExtraDocs
    /\ pc = "install"
    /\ i = 1
    /\ frame = NoFrame
    /\ conns = {}
    /\ calls = <<>>
    /\ log = <<>>
    /\ installed_hosts = <<>>
    /\ fs = [h \in Hosts |-> [data |-> TRUE, conf |-> TRUE]]
    /\ err = NoError

NextExtras ==
    \/ InstallBegin
    \/ InstallGet
    \/ InstallCustom
    \/ CustomRepoPrimary
    \/ CustomRepoExtra
    \/ InstallCephVersion
    \/ InstallExit

SpecExtras == InitExtras /\ [][NextExtras]_vars

-----------------------------------------------------------------------------
(* Vocabulary of the properties *)

Range(s) == {s[k] : k \in 1..Len(s)}

CallIdx == 1..Len(calls)

Ended == pc \in {"returned", "raised"}

DestructiveCommands ==
    {"rm /var/lib/ceph", "umount", "rm /var/lib/ceph again", "rm /etc/ceph"}

Destructive(c) == c.ev \in DestructiveCommands

Failed(c) == c.result \in {"error", "connect", "unsupported"}

\* The hosts, in list order, whose probe answered "present"
RECURSIVE PresentHosts(_)
PresentHosts(k) ==
    IF k > Len(calls) THEN <<>>
    ELSE (IF calls[k].ev = "which" /\ calls[k].result = "present"
          THEN <<calls[k].host>> ELSE <<>>) \o PresentHosts(k + 1)

PreconditionError ==
    /\ pc = "raised"
    /\ err.type = "RuntimeError"
    /\ err.key = "refusing to purge data while ceph is still installed"

\* An explicit (non-empty) repo url was given, by the environment or the flag
GivenUrl(env, flag) == IF env \notin {NONE, ""} THEN env ELSE flag

RepoUrlGiven ==
    GivenUrl(environ.CEPH_DEPLOY_REPO_URL, args.repo_url) \notin {NONE, ""}

\* The release value: the --stable value when that flag stored one, else the
\* --release value (or its default)
ReleaseValue == IF args.stable # NONE THEN args.stable ELSE args.release

\* The value of the version the flags select
VersionValue ==
    IF args.version_kind = "stable" THEN ReleaseValue ELSE args[args.version_kind]

HasSection(name) == cd_conf.present /\ name \in Range(cd_conf.repos)

DefaultSections ==
    {s \in Range(cd_conf.repos) : "default" \in DOMAIN cd_conf.sec[s].items}

\* Calls k that directly follow the successful opening of a host: the first
\* dispatch call on that host
FirstOnHost(k) ==
    /\ k \in CallIdx /\ k > 1
    /\ calls[k-1].ev = "hosts.get" /\ calls[k-1].result = "ok"

\* The options a section's repo_install must carry
PassedOptions(name, marker) ==
    LET rest == [k \in (DOMAIN cd_conf.sec[name].items) \ RequiredKeys
                   |-> cd_conf.sec[name].items[k]]
    IN  IF marker
        THEN [k \in (DOMAIN rest) \cup {"install_ceph"} |->
                IF k = "install_ceph" THEN "True" ELSE rest[k]]
        ELSE rest

-----------------------------------------------------------------------------
(* Properties *)

\* C1: purge-data issues no destructive command on any host unless every
\* host of the list was probed before it and every probe answered "absent";
\* once a probe answers "present" the run issues no destructive command.
C1_NoDestructionUnlessAllAbsent ==
    func = "purge_data" =>
        /\ \A k \in CallIdx : Destructive(calls[k]) =>
              /\ \A h \in Range(args.host) :
                    \E j \in 1..(k-1) : calls[j] = Call("which", h, "absent")
              /\ \A j \in CallIdx : calls[j].ev = "which" => calls[j].result = "absent"
        /\ (Len(PresentHosts(1)) > 0) => \A k \in CallIdx : ~Destructive(calls[k])

\* C1 witness: host 1 reports the package present, host 2 absent, and the
\* run has ended
C1_Witness ==
    /\ func = "purge_data" /\ Ended
    /\ \E j, k \in CallIdx : /\ calls[j] = Call("which", 1, "present")
                             /\ calls[k] = Call("which", 2, "absent")

\* C2: when purge-data fails with the precondition error every host of the
\* list was probed, and the reported hosts are exactly the hosts whose probe
\* answered "present", in list order.
C2_ReportsEveryPresentHost ==
    (func = "purge_data" /\ PreconditionError) =>
        /\ \A h \in Range(args.host) :
              \E k \in CallIdx : calls[k].ev = "which" /\ calls[k].host = h
        /\ log = <<<<"error", "ceph is still installed on",
                    SelectSeq(args.host, LAMBDA h :
                        \E k \in CallIdx : calls[k] = Call("which", h, "present"))>>>>

\* C2 witness: the first of two hosts reports present, the second is probed
\* all the same, and the run fails with the precondition error
C2_Witness ==
    /\ func = "purge_data" /\ PreconditionError
    /\ Len(args.host) = 2
    /\ \E j \in CallIdx : calls[j] = Call("which", 1, "present")
    /\ \E j \in CallIdx : calls[j].ev = "which" /\ calls[j].host = 2

\* C3: in phase 2 a failed first removal never ends the run; when the data
\* directory is still present the unmount comes between the existence check
\* and the second removal; a failed second removal ends the run in failure,
\* with no removal of the configuration directory on that host.
C3_Remediation ==
    func = "purge_data" =>
        \A k \in CallIdx :
            /\ (calls[k].ev = "rm /var/lib/ceph" /\ k = Len(calls)) =>
                  (pc = "purge_data_unmount" /\ err = NoError)
            /\ (calls[k].ev = "path_exists" /\ calls[k].result = "present") =>
                  /\ k < Len(calls)
                  /\ calls[k+1].ev = "umount" /\ calls[k+1].host = calls[k].host
            /\ calls[k].ev = "rm /var/lib/ceph again" =>
                  /\ k > 2
                  /\ calls[k-1] = Call("umount", calls[k].host, "ok")
                  /\ calls[k-2] = Call("path_exists", calls[k].host, "present")
            /\ (calls[k].ev = "rm /var/lib/ceph again" /\ calls[k].result = "error") =>
                  /\ k = Len(calls)
                  /\ pc = "raised" /\ err # NoError

\* C3 witness: the second removal has failed on a host
C3_Witness ==
    /\ func = "purge_data"
    /\ Len(calls) > 0
    /\ calls[Len(calls)] = Call("rm /var/lib/ceph again", hostname, "error")

\* C4: install is fail-fast: a failed call is the last call of the run, the
\* run then ends in failure, and no host after the failing one is touched.
C4_InstallFailFast ==
    func = "install" =>
        /\ \A k \in CallIdx : Failed(calls[k]) => (k = Len(calls) /\ pc = "raised")
        /\ (err # NoError) => (pc = "raised" /\ \A k \in CallIdx : calls[k].host <= i)
        /\ pc = "raised" => err # NoError
        /\ pc = "returned" => err = NoError

\* C4 witness: host 1 of two hosts failed and the run is over
C4_Witness ==
    /\ func = "install" /\ pc = "raised"
    /\ Len(args.host) = 2 /\ i = 1
    /\ Failed(calls[Len(calls)])

\* C5: with an explicit repo url the dispatch on every host is mirror_install
\* with that url, whatever the config document holds; repo_install and the
\* plain install are never called.
C5_OverridePrecedence ==
    (func = "install" /\ RepoUrlGiven) =>
        \A k \in CallIdx :
            /\ calls[k].ev \notin {"repo_install", "install"}
            /\ FirstOnHost(k) =>
                  /\ calls[k].ev = "mirror_install"
                  /\ calls[k].repo_url =
                        GivenUrl(environ.CEPH_DEPLOY_REPO_URL, args.repo_url)

\* C5 witness: a config document with a default repo and a release-named
\* section, overridden by the url on the second host too
C5_Witness ==
    /\ func = "install" /\ RepoUrlGiven
    /\ HasSection(ReleaseValue) /\ DefaultSections # {}
    /\ Len(calls) > 0
    /\ calls[Len(calls)].ev = "mirror_install" /\ calls[Len(calls)].host = 2

\* C6: with no explicit repo url, a section named as the release value is
\* the primary section whether or not a default repo is configured; the
\* default section is the primary one only when no such section exists.
C6_ReleaseMatchPrecedence ==
    (func = "install" /\ ~RepoUrlGiven /\ cd_conf.present /\ has_repos(cd_conf)) =>
        \A k \in CallIdx : FirstOnHost(k) =>
            /\ HasSection(ReleaseValue) =>
                  /\ calls[k].ev = "repo_install"
                  /\ calls[k].name = ReleaseValue
                  /\ calls[k].baseurl = cd_conf.sec[ReleaseValue].items["baseurl"]
                  /\ calls[k].gpgkey = cd_conf.sec[ReleaseValue].items["gpgkey"]
                  /\ calls[k].options = PassedOptions(ReleaseValue, TRUE)
            /\ (calls[k].ev = "repo_install" /\ calls[k].name # ReleaseValue) =>
                  /\ ~HasSection(ReleaseValue)
                  /\ calls[k].name \in DefaultSections

\* C6 witness: the release-named section was installed although another
\* section is the default repo
C6_Witness ==
    /\ func = "install" /\ ~RepoUrlGiven
    /\ HasSection(ReleaseValue)
    /\ DefaultSections # {} /\ ReleaseValue \notin DefaultSections
    /\ \E k \in CallIdx : FirstOnHost(k) /\ calls[k].name = ReleaseValue

\* The section custom_repo has to select: the release-named one, else the
\* first default one, else NONE
SelectedSection ==
    IF HasSection(ReleaseValue) THEN ReleaseValue
    ELSE IF DefaultSections = {} THEN NONE
    ELSE cd_conf.repos[CHOOSE k \in 1..Len(cd_conf.repos) :
                          /\ cd_conf.repos[k] \in DefaultSections
                          /\ \A j \in 1..(k-1) : cd_conf.repos[j] \notin DefaultSections]

MissingKeys(name) == RequiredKeys \ DOMAIN cd_conf.sec[name].items

\* C7: when the selected section lacks baseurl or gpgkey, install never calls
\* repo_install for it, never gets past the first host, and once the host is
\* open fails with the error that names a missing key and the section.
C7_MissingKey ==
    (/\ func = "install" /\ ~RepoUrlGiven /\ cd_conf.present
     /\ SelectedSection # NONE /\ MissingKeys(SelectedSection) # {}) =>
        /\ \A k \in CallIdx :
              /\ calls[k].ev = "repo_install" => calls[k].name # SelectedSection
              /\ calls[k].host = args.host[1]
        /\ pc \notin {"install_version", "install_exit", "custom_repo_extra", "returned"}
        /\ (pc = "raised" /\ ~Failed(calls[Len(calls)])) =>
              /\ calls[Len(calls)] = Call("hosts.get", args.host[1], "ok")
              /\ err.type = "RuntimeError"
              /\ err.key \in MissingKeys(SelectedSection)
              /\ err.section = SelectedSection

\* C7 witness: with two hosts, the run failed on the first for a selected
\* section that lacks gpgkey
C7_Witness ==
    /\ func = "install" /\ pc = "raised" /\ Len(args.host) = 2
    /\ cd_conf.present /\ SelectedSection # NONE
    /\ MissingKeys(SelectedSection) = {"gpgkey"}
    /\ err = [type |-> "RuntimeError", key |-> "gpgkey", section |-> SelectedSection]

\* C8: with no explicit repo url and a config document that has repo sections
\* but neither a release-named section nor a default repo, every host is
\* installed through the plain install and the "could not default to one"
\* warning is emitted.
C8_WarnsAndInstallsPlain ==
    (/\ func = "install" /\ ~RepoUrlGiven /\ cd_conf.present /\ has_repos(cd_conf)
     /\ ~HasSection(ReleaseValue) /\ DefaultSections = {}) =>
        \A k \in CallIdx :
            /\ calls[k].ev \notin {"repo_install", "mirror_install"}
            /\ FirstOnHost(k) =>
                  /\ calls[k].ev = "install"
                  /\ \E m \in 1..Len(log) :
                        log[m] = <<"warning",
                          "a ceph-deploy config was found with repos but could not default to one">>

\* C9: the name matched against the config sections is the value of the
\* selected version, for every version kind: a section named as that value
\* is the primary section, and no other section is treated as the match.
C9_MatchesVersionValue ==
    (func = "install" /\ ~RepoUrlGiven /\ cd_conf.present /\ has_repos(cd_conf)) =>
        \A k \in CallIdx : FirstOnHost(k) =>
            /\ HasSection(VersionValue) =>
                  (calls[k].ev = "repo_install" /\ calls[k].name = VersionValue)
            /\ (calls[k].ev = "repo_install" /\ calls[k].name # VersionValue) =>
                  (~HasSection(VersionValue) /\ calls[k].name \in DefaultSections)

\* C10: when an operation has returned or failed, no host session is open.
C10_SessionsClosedAtEnd ==
    Ended => conns = {}

\* The deprecation warning of line 16
DeprecationWarning == <<"warning", "the --stable flag is deprecated">>

\* The version kind a flag stands for
KindOf(flag) == IF flag \in {NONE, "release", "stable"} THEN "stable" ELSE flag

\* C11: with --stable X the version handed to the dispatch has kind 'stable'
\* and value X, X is the release value matched against the config sections,
\* and the deprecation warning is emitted; without --stable no deprecation
\* warning is emitted and the kind is that of the flag given (no flag:
\* stable, with the default codename).
C11_VersionAlias ==
    func = "install" =>
        /\ (argv[1] = "stable" /\ argv[2] # NONE) =>
              /\ args.version_kind = "stable"
              /\ pc # "install" =>
                    /\ frame.version = argv[2]
                    /\ args.release = argv[2]
                    /\ InList(DeprecationWarning, log)
              /\ \A k \in CallIdx :
                    /\ calls[k].ev = "install" =>
                          (calls[k].version_kind = "stable" /\ calls[k].version = argv[2])
                    /\ (FirstOnHost(k) /\ ~RepoUrlGiven /\ HasSection(argv[2])) =>
                          (calls[k].ev = "repo_install" /\ calls[k].name = argv[2])
        /\ argv[1] # "stable" =>
              /\ ~InList(DeprecationWarning, log)
              /\ args.version_kind = KindOf(argv[1])
              /\ \A k \in CallIdx : calls[k].ev = "install" =>
                    /\ calls[k].version_kind = KindOf(argv[1])
                    /\ calls[k].version = IF argv[1] = NONE THEN "emperor" ELSE argv[2]

\* C11 witness: --stable firefly went through the plain install
C11_Witness ==
    /\ func = "install" /\ argv = <<"stable", "firefly">>
    /\ InList(DeprecationWarning, log)
    /\ \E k \in CallIdx : calls[k].ev = "install" /\ calls[k].version = "firefly"

\* C20: StoreVersion behaves the same on every command line the parser
\* handles: --release X stores X under release, sets version_kind to 'stable'
\* and leaves stable unset, so that install emits no deprecation warning;
\* --testing and --dev set version_kind to their own name and store the value
\* under it.
C20_StoreVersionEveryTime ==
    /\ (argv[1] = "release" /\ argv[2] # NONE) =>
          /\ args.release = argv[2]
          /\ args.version_kind = "stable"
          /\ args.stable = NONE
          /\ ~InList(DeprecationWarning, log)
    /\ argv[1] \in {"testing", "dev"} =>
          /\ args.version_kind = argv[1]
          /\ args[argv[1]] = argv[2]

\* The gpg url the environment or the flag gives, NONE when the variable is
\* unset or empty and the flag was not given
GivenGpgUrl == GivenUrl(environ.CEPH_DEPLOY_GPG_URL, args.gpg_url)

FallbackWarning == <<"warning", "using GPG fallback">>

\* C12 as stated: each url is the environment variable's value whenever the
\* variable is set, otherwise the flag's value, and the gpg url is the
\* fallback exactly when neither the variable nor the flag gives one.
C12_EnvWheneverSet ==
    \A k \in CallIdx : calls[k].ev = "mirror_install" =>
        /\ calls[k].repo_url = IF environ.CEPH_DEPLOY_REPO_URL # NONE
                               THEN environ.CEPH_DEPLOY_REPO_URL ELSE args.repo_url
        /\ calls[k].gpg_url =
              IF environ.CEPH_DEPLOY_GPG_URL # NONE THEN environ.CEPH_DEPLOY_GPG_URL
              ELSE IF args.gpg_url # NONE THEN args.gpg_url
              ELSE gpg_fallback

\* C12 amended: each url is the environment variable's value when the
\* variable is set to a non-empty value, otherwise the flag's value;
\* mirror_install is called exactly for a non-empty repo url; the gpg url is
\* the fallback exactly when the value so chosen is None (an empty --gpg-url
\* is handed on as it is); without a repo url the fallback is not used.
C12_UrlPair ==
    /\ \A k \in CallIdx : calls[k].ev = "mirror_install" =>
          /\ RepoUrlGiven
          /\ calls[k].repo_url = GivenUrl(environ.CEPH_DEPLOY_REPO_URL, args.repo_url)
          /\ calls[k].gpg_url = IF GivenGpgUrl = NONE THEN gpg_fallback ELSE GivenGpgUrl
          /\ InList(FallbackWarning, log) = (GivenGpgUrl = NONE)
    /\ \A k \in CallIdx : (FirstOnHost(k) /\ RepoUrlGiven) => calls[k].ev = "mirror_install"
    /\ ~RepoUrlGiven => ~InList(FallbackWarning, log)

\* C12 witness: the repo variable is set but empty, so the flag's url is
\* used, and the empty --gpg-url is handed on
C12_Witness ==
    /\ environ.CEPH_DEPLOY_REPO_URL = "" /\ args.repo_url = "http://cli/repo"
    /\ environ.CEPH_DEPLOY_GPG_URL = NONE /\ args.gpg_url = ""
    /\ \E k \in CallIdx : /\ calls[k].ev = "mirror_install"
                          /\ calls[k].repo_url = "http://cli/repo"
                          /\ calls[k].gpg_url = ""

\* Position of a host in args.host
PosOf(h) == CHOOSE p \in 1..Len(args.host) : args.host[p] = h

SameHostOk(k, evs) ==
    /\ k > 1
    /\ calls[k-1].ev \in evs
    /\ calls[k-1].host = calls[k].host
    /\ ~Failed(calls[k-1])

\* C13: uninstall and purge go through the hosts in list order; each host
\* gets hosts.get, one uninstall call and conn.exit, in that order; the call
\* carries purge=False in uninstall and purge=True in purge; a failed call is
\* the last call of the run.
C13_UninstallPurgeOrder ==
    func \in {"uninstall", "purge"} =>
        /\ \A k \in CallIdx :
              LET pos  == ((k - 1) \div 3) + 1
                  step == ((k - 1) % 3) + 1
              IN  /\ pos <= Len(args.host)
                  /\ calls[k].host = args.host[pos]
                  /\ calls[k].ev = <<"hosts.get", "uninstall", "conn.exit">>[step]
                  /\ step = 2 => calls[k].purge = (func = "purge")
                  /\ Failed(calls[k]) => (k = Len(calls) /\ pc = "raised")
        /\ pc = "returned" => Len(calls) = 3 * Len(args.host)

\* C13 witness: purge has gone through two hosts
C13_Witness ==
    /\ func = "purge" /\ pc = "returned" /\ Len(args.host) = 2
    /\ calls[5] = [ev |-> "uninstall", host |-> 2, result |-> "ok", purge |-> TRUE]

\* A step of phase 2 whose failure is raised
FatalFailure(c) ==
    /\ c.ev \in {"umount", "rm /var/lib/ceph again", "rm /etc/ceph"}
    /\ c.result = "error"

\* C14: phase 2 cleans the hosts in list order; a host's first destructive
\* command comes after the configuration directory of the host before it was
\* removed; a failed fatal step is the last call of the run; no command is
\* repeated on a host; a cleaned host stays cleaned.
C14_PhaseTwoFailFast ==
    func = "purge_data" =>
        /\ \A k \in CallIdx : Destructive(calls[k]) =>
              /\ \A j \in 1..(k-1) : Destructive(calls[j]) =>
                    /\ PosOf(calls[j].host) <= PosOf(calls[k].host)
                    /\ (calls[j].host = calls[k].host) => calls[j].ev # calls[k].ev
              /\ PosOf(calls[k].host) > 1 =>
                    \E j \in 1..(k-1) :
                        calls[j] = Call("rm /etc/ceph",
                                        args.host[PosOf(calls[k].host) - 1], "ok")
              /\ FatalFailure(calls[k]) => (k = Len(calls) /\ pc = "raised")
        /\ \A h \in Range(args.host) :
              (\E k \in CallIdx : calls[k] = Call("rm /etc/ceph", h, "ok")) =>
                  (~fs[h].data /\ ~fs[h].conf)

\* C14 witness: host 1 is cleaned and a fatal step has failed on host 2
C14_Witness ==
    /\ func = "purge_data" /\ pc = "raised"
    /\ FatalFailure(calls[Len(calls)]) /\ calls[Len(calls)].host = 2
    /\ ~fs[1].data /\ ~fs[1].conf

\* C15: on every host of phase 2 the unmount is issued exactly when the data
\* directory is still there after the first removal, and the second removal
\* exactly after that unmount (once the unmount has succeeded); the
\* configuration directory is removed once per host, after the last removal
\* of the data directory and before the session is closed, whether or not
\* the unmount ran; its failure ends the run.
C15_PhaseTwoSteps ==
    func = "purge_data" =>
        \A k \in CallIdx :
            /\ calls[k].ev = "path_exists" =>
                  /\ k > 1 /\ calls[k-1].ev = "rm /var/lib/ceph"
                  /\ calls[k-1].host = calls[k].host
                  /\ (calls[k].result = "present") = (calls[k-1].result = "error")
                  /\ calls[k].result = "present" =>
                        (k < Len(calls) /\ calls[k+1].ev = "umount")
                  /\ (calls[k].result = "absent" /\ k < Len(calls)) =>
                        calls[k+1].ev = "rm /etc/ceph"
            /\ calls[k].ev = "umount" =>
                  /\ calls[k-1] = Call("path_exists", calls[k].host, "present")
                  /\ (calls[k].result = "ok" /\ k < Len(calls)) =>
                        calls[k+1].ev = "rm /var/lib/ceph again"
                  /\ (calls[k].result = "ok" /\ k = Len(calls)) => pc = "purge_data_rm2"
            /\ calls[k].ev = "rm /var/lib/ceph again" =>
                  /\ calls[k-1] = Call("umount", calls[k].host, "ok")
                  /\ (calls[k].result = "ok" /\ k < Len(calls)) =>
                        calls[k+1].ev = "rm /etc/ceph"
            /\ calls[k].ev = "rm /etc/ceph" =>
                  /\ \/ calls[k-1] = Call("path_exists", calls[k].host, "absent")
                     \/ calls[k-1] = Call("rm /var/lib/ceph again", calls[k].host, "ok")
                  /\ \A j \in CallIdx :
                        (calls[j].ev = "rm /etc/ceph" /\ calls[j].host = calls[k].host) => j = k
                  /\ calls[k].result = "error" => (k = Len(calls) /\ pc = "raised")
                  /\ k = Len(calls) => calls[k].host \in conns
                  /\ k < Len(calls) => calls[k+1] = Call("conn.exit", calls[k].host, "ok")
            /\ (calls[k].ev = "conn.exit" /\ calls[k-1].ev # "which") =>
                  calls[k-1] = Call("rm /etc/ceph", calls[k].host, "ok")

\* C15 witness: both hosts are done, the first with the unmount and the
\* second removal, the second without
C15_Witness ==
    /\ func = "purge_data" /\ pc = "returned" /\ Len(args.host) = 2
    /\ \E k \in CallIdx : calls[k] = Call("rm /var/lib/ceph again", 1, "ok")
    /\ \E k \in CallIdx : calls[k] = Call("path_exists", 2, "absent")
    /\ \E k \in CallIdx : calls[k] = Call("rm /etc/ceph", 2, "ok")

DispatchKinds == {"mirror_install", "repo_install", "install"}

\* C17: install goes through the hosts in list order; on a host the calls
\* are hosts.get, then calls of one dispatch kind only, then the version
\* query, then conn.exit; the version query follows a dispatch call that
\* returned and finds the session open.
C17_InstallOrder ==
    func = "install" =>
        \A k \in CallIdx :
            /\ calls[k].ev \in DispatchKinds \cup {"hosts.get", "ceph_version", "conn.exit"}
            /\ calls[k].ev = "hosts.get" =>
                  \/ k = 1 /\ calls[k].host = args.host[1]
                  \/ /\ k > 1 /\ calls[k-1].ev = "conn.exit"
                     /\ PosOf(calls[k].host) = PosOf(calls[k-1].host) + 1
            /\ calls[k].ev \in {"mirror_install", "install"} => SameHostOk(k, {"hosts.get"})
            /\ calls[k].ev = "repo_install" => SameHostOk(k, {"hosts.get", "repo_install"})
            /\ calls[k].ev = "ceph_version" =>
                  /\ SameHostOk(k, DispatchKinds)
                  /\ k = Len(calls) => calls[k].host \in conns
            /\ calls[k].ev = "conn.exit" => SameHostOk(k, {"ceph_version"})

\* C17 witness: two hosts were installed from the config document
C17_Witness ==
    /\ func = "install" /\ pc = "returned" /\ Len(args.host) = 2
    /\ \E k \in CallIdx : calls[k].ev = "repo_install" /\ calls[k].host = 2

\* Sessions opened, and sessions closed, by the first k calls
RECURSIVE Opened(_)
Opened(k) ==
    IF k = 0 THEN 0
    ELSE Opened(k - 1) + (IF calls[k].ev = "hosts.get" /\ calls[k].result # "connect"
                          THEN 1 ELSE 0)

RECURSIVE Closed(_)
Closed(k) ==
    IF k = 0 THEN 0
    ELSE Closed(k - 1) + (IF calls[k].ev = "conn.exit" THEN 1 ELSE 0)

\* C19: at most one host session is open in any state, and a session is
\* opened only when every session opened before it has been closed.
C19_OneSessionAtATime ==
    /\ Cardinality(conns) <= 1
    /\ Opened(Len(calls)) - Closed(Len(calls)) = Cardinality(conns)
    /\ \A k \in CallIdx : calls[k].ev = "hosts.get" => Opened(k - 1) = Closed(k - 1)

\* C19 witness: a session of the second loop of purge_data is open on the
\* second host
C19_Witness ==
    /\ func = "purge_data" /\ pc = "purge_data_rm"
    /\ i = 2 /\ conns = {2}

\* The hosts.get that opened the host of call k
LastGet(k) ==
    CHOOSE g \in 1..k :
        /\ calls[g].ev = "hosts.get"
        /\ \A j \in (g+1)..k : calls[j].ev # "hosts.get"

\* The extra-repos list of the selected section
ExtraList == cd_conf.sec[SelectedSection].extra

\* The key a section's options.pop() fails on
FirstMissing(name) ==
    IF "baseurl" \in MissingKeys(name) THEN "baseurl" ELSE "gpgkey"

\* C16: in an install from the config document the n-th repo_install on a
\* host is, for n = 1, the selected section with the install marker, and for
\* n > 1 the (n-1)-th name of its extra-repos list with that section's own
\* baseurl, gpgkey and remaining options and no marker; baseurl and gpgkey
\* are never among the options passed on; the version query is reached only
\* after all of them; a configuration error names the first extra section
\* that lacks a key, and that key, and comes after everything before it on
\* the list was installed.
C16_PrimaryThenExtras ==
    (func = "install" /\ ~RepoUrlGiven /\ cd_conf.present /\ SelectedSection # NONE) =>
        /\ \A k \in CallIdx :
              LET n == k - LastGet(k)
              IN  /\ calls[k].ev = "repo_install" =>
                        /\ \A j \in (LastGet(k) + 1)..(k - 1) :
                              calls[j].ev = "repo_install" /\ calls[j].result = "ok"
                        /\ n - 1 <= Len(ExtraList)
                        /\ calls[k].name = (IF n = 1 THEN SelectedSection
                                            ELSE ExtraList[n - 1])
                        /\ calls[k].baseurl = cd_conf.sec[calls[k].name].items["baseurl"]
                        /\ calls[k].gpgkey = cd_conf.sec[calls[k].name].items["gpgkey"]
                        /\ calls[k].options = PassedOptions(calls[k].name, n = 1)
                        /\ ("install_ceph" \in DOMAIN calls[k].options) = (n = 1)
                        /\ RequiredKeys \cap DOMAIN calls[k].options = {}
                        /\ \A j \in 1..(n - 1) : MissingKeys(ExtraList[j]) = {}
                  /\ calls[k].ev = "ceph_version" => n = Len(ExtraList) + 2
        /\ (pc = "raised" /\ err.type = "RuntimeError"
               /\ MissingKeys(SelectedSection) = {}) =>
              LET n == Len(calls) - LastGet(Len(calls))
              IN  /\ n \in 1..Len(ExtraList)
                  /\ calls[Len(calls)].ev = "repo_install"
                  /\ calls[Len(calls)].result = "ok"
                  /\ MissingKeys(ExtraList[n]) # {}
                  /\ err = ConfigError(FirstMissing(ExtraList[n]), ExtraList[n])

\* C16 witness: the list names two extra sections, in the reverse of their
\* order in the document; the first was installed after the primary, the
\* second lacks gpgkey
C16_Witness ==
    /\ func = "install" /\ pc = "raised" /\ cd_conf.present
    /\ SelectedSection # NONE
    /\ ExtraList = <<"updates", "extras">>
    /\ Len(calls) = 3
    /\ calls[2].ev = "repo_install" /\ calls[2].name = SelectedSection
    /\ calls[3].ev = "repo_install" /\ calls[3].name = "updates"
    /\ err = ConfigError("gpgkey", "extras")

\* The repo_install calls made on the host at position p
RepoInstallsOn(p) ==
    SelectSeq(calls, LAMBDA c : c.ev = "repo_install" /\ c.host = args.host[p])

IsPrefix(s, t) == Len(s) <= Len(t) /\ s = SubSeq(t, 1, Len(s))

\* C18: no step of install changes the config document, and a later host is
\* installed from the same sections as the first: its repo_install calls
\* repeat those of the first host, each with the baseurl and gpgkey the
\* document holds for its section.
C18_DocumentUnchanged ==
    /\ [][cd_conf' = cd_conf]_vars
    /\ [](func = "install" =>
            /\ \A p \in 2..Len(args.host) :
                  IsPrefix(
                     [k \in 1..Len(RepoInstallsOn(p)) |->
                        [RepoInstallsOn(p)[k] EXCEPT !.host = args.host[1], !.result = "ok"]],
                     [k \in 1..Len(RepoInstallsOn(1)) |->
                        [RepoInstallsOn(1)[k] EXCEPT !.result = "ok"]])
            /\ \A k \in CallIdx : calls[k].ev = "repo_install" =>
                  /\ "install_ceph" \notin DOMAIN cd_conf.sec[calls[k].name].items
                  /\ calls[k].baseurl = cd_conf.sec[calls[k].name].items["baseurl"]
                  /\ calls[k].gpgkey = cd_conf.sec[calls[k].name].items["gpgkey"])

\* C18 witness: the second host got the primary and an extra repo
C18_Witness ==
    /\ func = "install" /\ Len(args.host) = 2
    /\ Len(RepoInstallsOn(2)) = 2
    /\ RepoInstallsOn(2)[2].result = "ok"

====
